---------------------------- MODULE Spec2Model ----------------------------
(***************************************************************************)
(* Model of the AFAAP performance-metrics engine                           *)
(* (src/metrics/performance_metrics.py): confusion-matrix tallying,        *)
(* bootstrap confidence intervals for F1 / FPR / precision / recall, the   *)
(* deployment-threshold policy and the degradation comparison.             *)
(*                                                                         *)
(* Ratios are exact rationals, stored as integers scaled by Scale: the     *)
(* value v stands for v / Scale.  Scale is divisible by every denominator  *)
(* a ratio over at most 5 samples can have (1..10) and by the 200 of the   *)
(* percentile interpolation, so no division below loses a remainder.       *)
(***************************************************************************)
EXTENDS Integers, Sequences, FiniteSets, TLC

\* ------------------------------------------------------------------ bounds
\* longest label array enumerated exhaustively
MaxN == 2
\* largest number of bootstrap iterations
MaxB == 3
\* seeds are 0..MaxSeed
MaxSeed == 1
\* size of the state space of the modelled pseudo-random generator
RngMod == 8

\* denominator of the percentile rank: q percent = qnum / 200 of the range
PctDen == 200
Scale == 2520 * PctDen

\* confidence levels, in percent
ConfLevels == {50, 95}

Bits == {0, 1}

Arrays(n) == UNION {[1..k -> Bits] : k \in 0..n}

\* the worked example of the documentation, and two three-sample sets
ExampleTrue == <<0, 1, 1, 0, 1>>
ExamplePred == <<0, 1, 0, 0, 1>>

ExamplePairs ==
    { <<ExampleTrue, ExamplePred>>,
      <<<<1, 0, 1>>, <<1, 1, 0>>>>,
      <<<<0, 0, 0>>, <<0, 1, 0>>>>,
      <<<<1, 1, 1>>, <<1, 0, 1>>>> }

\* arrays of one repeated label; validation reads lengths only
Uniform(n) == {[i \in 1..k |-> v] : k \in 0..n, v \in Bits}

\* every aligned pair up to MaxN samples (the empty pair included), pairs of
\* different lengths (either side possibly empty), and the examples
InputPairs ==
    {p \in Arrays(MaxN) \X Arrays(MaxN) : Len(p[1]) = Len(p[2])}
    \cup {p \in Uniform(MaxN) \X Uniform(MaxN) : Len(p[1]) # Len(p[2])}
    \cup ExamplePairs

\* ------------------------------------------------------------ thresholds
MIN_F1_SCORE == (85 * Scale) \div 100
MAX_FPR == (1 * Scale) \div 100

\* ---------------------------------------------------------------- numpy
RECURSIVE SumTo(_, _)
SumTo(a, k) == IF k = 0 THEN 0 ELSE a[k] + SumTo(a, k - 1)

Sum(a) == SumTo(a, Len(a))

\* np.random.seed(s): the generator state is a function of the seed alone
NpSeed(s) == s % RngMod

\* one step of the generator
NpStep(x) == (5 * x + 3) % RngMod

\* the index in [0, n) drawn from generator state x
NpIndex(x, n) == (x * n) \div RngMod

\* np.random.randint(0, n, n): n indices, and the generator state afterwards
RECURSIVE RandintFrom(_, _, _)
RandintFrom(x, n, k) ==
    IF k = 0 THEN [indices |-> <<>>, rng |-> x]
    ELSE LET x1 == NpStep(x)
             rest == RandintFrom(x1, n, k - 1)
         IN  [indices |-> <<NpIndex(x1, n)>> \o rest.indices, rng |-> rest.rng]

\* a draw of one index too few
NpRandintShort(x, n) == RandintFrom(x, n, n - 1)

NpRandint(x, n) == RandintFrom(x, n, n)

\* a[indices] (indices are 0-based)
Take(a, indices) == [i \in 1..Len(indices) |-> a[indices[i] + 1]]

RECURSIVE Insert(_, _)
Insert(v, s) ==
    IF s = <<>> THEN <<v>>
    ELSE IF v <= Head(s) THEN <<v>> \o s
    ELSE <<Head(s)>> \o Insert(v, Tail(s))

RECURSIVE Sorted(_)
Sorted(s) == IF s = <<>> THEN <<>> ELSE Insert(Head(s), Sorted(Tail(s)))

\* the percentile taken at the lower neighbour, without interpolation
NpPercentileLower(scores, qnum) ==
    LET s == Sorted(scores)
        n == Len(s)
        j == ((n - 1) * qnum) \div PctDen
    IN  IF j + 1 >= n THEN s[n] ELSE s[j + 1]

\* np.percentile(scores, q) with q = 100 * qnum / PctDen, linear interpolation
NpPercentile(scores, qnum) ==
    LET s == Sorted(scores)
        n == Len(s)
        pos == (n - 1) * qnum
        j == pos \div PctDen
        g == pos % PctDen
    IN  IF j + 1 >= n THEN s[n]
        ELSE s[j + 1] + (g * (s[j + 2] - s[j + 1])) \div PctDen

\* -------------------------------------------------------------- sklearn
Count(yt, yp, t, p) ==
    Cardinality({i \in 1..Len(yt) : yt[i] = t /\ yp[i] = p})

\* confusion_matrix(y_true, y_pred, labels=[0, 1]).ravel()
confusion_matrix(yt, yp) ==
    [tn |-> Count(yt, yp, 0, 0), fp |-> Count(yt, yp, 0, 1),
     fn |-> Count(yt, yp, 1, 0), tp |-> Count(yt, yp, 1, 1)]

\* the quotient without its fallback: 0 / 0 comes out as not-a-number,
\* here the value -1 that no quotient takes
RatioNaN(num, den) == IF den = 0 THEN 0 - 1 ELSE (num * Scale) \div den

Ratio(num, den) == IF den = 0 THEN 0 ELSE (num * Scale) \div den

\* precision with the denominator of recall
precision_over_positives(yt, yp) ==
    LET c == confusion_matrix(yt, yp) IN Ratio(c.tp, c.tp + c.fn)

precision_score(yt, yp) ==
    LET c == confusion_matrix(yt, yp) IN Ratio(c.tp, c.tp + c.fp)

\* recall with zero_division=1
recall_score_default_one(yt, yp) ==
    LET c == confusion_matrix(yt, yp)
    IN  IF c.tp + c.fn = 0 THEN Scale ELSE Ratio(c.tp, c.tp + c.fn)

recall_score(yt, yp) ==
    LET c == confusion_matrix(yt, yp) IN Ratio(c.tp, c.tp + c.fn)

f1_score(yt, yp) ==
    LET c == confusion_matrix(yt, yp) IN Ratio(2 * c.tp, 2 * c.tp + c.fp + c.fn)


\* -------------------------------------------------------- bootstrap engine
\* the index arrays of k bootstrap iterations over n samples, drawn one
\* iteration after the other from generator state x
RECURSIVE Resamples(_, _, _)
Resamples(n, k, x) ==
    IF k = 0 THEN [indices |-> <<>>, rng |-> x]
    ELSE LET d == NpRandint(x, n)
             rest == Resamples(n, k - 1, d.rng)
         IN  [indices |-> <<d.indices>> \o rest.indices, rng |-> rest.rng]

\* a raised exception: nothing is returned, the generator is left as it was
Raise(kind, by, steps, x) ==
    [status |-> "error", error |-> kind, raised_by |-> by, out |-> <<>>,
     indices |-> <<>>, scores |-> <<>>, steps |-> steps, log |-> <<>>,
     rng |-> x]

\* a normal return; with it, what the invocation did on the way: the index
\* arrays it drew, the bootstrap scores it collected per metric, its steps
Return(out, indices, scores, steps, x) ==
    [status |-> "ok", error |-> "", raised_by |-> "", out |-> out,
     indices |-> indices, scores |-> scores, steps |-> steps, log |-> <<>>,
     rng |-> x]

\* the steps of a completed bootstrap of k iterations
BootSteps(k) == <<"point", "seed">> \o [i \in 1..k |-> "resample"] \o <<"percentile">>

\* lower and upper percentile ranks for a confidence level given in percent
QLower(conf) == 100 - conf
QUpper(conf) == 100 + conf

\* the interval with its two bounds exchanged
IntervalSwapped(scores, conf) ==
    <<NpPercentile(scores, QUpper(conf)), NpPercentile(scores, QLower(conf))>>

\* ci_lower and ci_upper: the (alpha/2)*100 and (1 - alpha/2)*100 percentiles
\* of the bootstrap scores, alpha = 1 - confidence
Interval(scores, conf) ==
    <<NpPercentile(scores, QLower(conf)), NpPercentile(scores, QUpper(conf))>>

\* the emptiness check left out
EmptyInputUnchecked(yt, yp) == FALSE

\* len(y_true) == 0 or len(y_pred) == 0
EmptyInput(yt, yp) == Len(yt) = 0 \/ Len(yp) = 0

\* the score of one bootstrap sample in calculate_f1_with_ci
F1Boot(ytb, ypb) ==
    IF Sum(ypb) = 0 \/ Sum(ytb) = 0 THEN 0 ELSE f1_score(ytb, ypb)

\* the score of one bootstrap sample in calculate_fpr_with_ci; the matrix
\* built with labels=[0, 1] is always 2 x 2
FprBoot(ytb, ypb) ==
    LET cm == confusion_matrix(ytb, ypb)
    IN  IF cm.fp + cm.tn = 0 THEN 0 ELSE Ratio(cm.fp, cm.fp + cm.tn)

\* the F1 bootstrap drawing on from wherever the generator stands
F1Unseeded(seed, x) == x

\* the generator state the F1 bootstrap starts from: np.random.seed(random_state)
F1SeedState(seed, x) == NpSeed(seed)

\* the F1 function reporting the score of its first resample as the point
\* estimate
calculate_f1_point_resampled(yt, yp, conf, nboot, seed, x) ==
    IF EmptyInput(yt, yp) THEN Raise("empty_input", "validation", <<>>, x)
    ELSE IF Len(yt) # Len(yp) THEN Raise("length_mismatch", "validation", <<>>, x)
    ELSE LET r == Resamples(Len(yt), nboot, F1SeedState(seed, x))
             scores == [i \in 1..Len(r.indices) |->
                          F1Boot(Take(yt, r.indices[i]), Take(yp, r.indices[i]))]
             ci == Interval(scores, conf)
         IN  Return(<<scores[1], ci[1], ci[2]>>, r.indices, [f1_score |-> scores],
                    BootSteps(Len(r.indices)), r.rng)

calculate_f1_with_ci(yt, yp, conf, nboot, seed, x) ==
    IF EmptyInput(yt, yp)
    THEN Raise("empty_input", "validation", <<>>, x)
    ELSE IF Len(yt) # Len(yp)
    THEN Raise("length_mismatch", "validation", <<>>, x)
    ELSE LET f1 == f1_score(yt, yp)
             r == Resamples(Len(yt), nboot, F1SeedState(seed, x))
             scores == [i \in 1..Len(r.indices) |->
                          F1Boot(Take(yt, r.indices[i]), Take(yp, r.indices[i]))]
             ci == Interval(scores, conf)
         IN  Return(<<f1, ci[1], ci[2]>>, r.indices, [f1_score |-> scores],
                    BootSteps(Len(r.indices)), r.rng)

\* the FPR bootstrap drawing on from wherever the generator stands
FprUnseeded(seed, x) == x

\* the generator state the FPR bootstrap starts from
FprSeedState(seed, x) == NpSeed(seed)

\* the no-negatives case not singled out
NegativesUnchecked(cm) == FALSE

\* (fp + tn) == 0: the full dataset holds no negative sample
NoNegativeSamples(cm) == cm.fp + cm.tn = 0

calculate_fpr_with_ci(yt, yp, conf, nboot, seed, x) ==
    IF EmptyInput(yt, yp)
    THEN Raise("empty_input", "validation", <<>>, x)
    ELSE IF Len(yt) # Len(yp)
    THEN Raise("length_mismatch", "validation", <<>>, x)
    ELSE LET cm == confusion_matrix(yt, yp)
         IN  IF NoNegativeSamples(cm)
             THEN Return(<<0, 0, 0>>, <<>>, [fpr |-> <<>>], <<"point">>, x)
             ELSE LET fpr == Ratio(cm.fp, cm.fp + cm.tn)
                      r == Resamples(Len(yt), nboot, FprSeedState(seed, x))
                      scores == [i \in 1..Len(r.indices) |->
                                   FprBoot(Take(yt, r.indices[i]),
                                           Take(yp, r.indices[i]))]
                      ci == Interval(scores, conf)
                  IN  Return(<<fpr, ci[1], ci[2]>>, r.indices, [fpr |-> scores],
                             BootSteps(Len(r.indices)), r.rng)

\* the generator state the precision/recall bootstrap starts from
PrSeedState(seed, x) == NpSeed(seed)

\* no length check of its own: on misaligned arrays the first sklearn call
\* (precision_score) raises
calculate_precision_recall_with_ci(yt, yp, conf, nboot, seed, x) ==
    IF EmptyInput(yt, yp)
    THEN Raise("empty_input", "validation", <<>>, x)
    ELSE IF Len(yt) # Len(yp)
    THEN Raise("inconsistent_samples", "sklearn", <<"point">>, x)
    ELSE LET precision == precision_score(yt, yp)
             recall == recall_score(yt, yp)
             r == Resamples(Len(yt), nboot, PrSeedState(seed, x))
             ps == [i \in 1..Len(r.indices) |->
                      precision_score(Take(yt, r.indices[i]), Take(yp, r.indices[i]))]
             rs == [i \in 1..Len(r.indices) |->
                      recall_score(Take(yt, r.indices[i]), Take(yp, r.indices[i]))]
             pci == Interval(ps, conf)
             rci == Interval(rs, conf)
         IN  Return([precision |-> <<precision, pci[1], pci[2]>>,
                     recall |-> <<recall, rci[1], rci[2]>>],
                    r.indices, [precision |-> ps, recall |-> rs],
                    BootSteps(Len(r.indices)), r.rng)

\* auc_roc when no scores are supplied
NoAuc == -1

\* the object built from a matrix unpacked in the wrong order (fn read
\* where fp stands)
PerformanceMetricsMisread(f1, fpr, pr, cm, auc, total) ==
    [f1_score |-> f1[1], f1_ci_lower |-> f1[2], f1_ci_upper |-> f1[3],
     fpr |-> fpr[1], fpr_ci_lower |-> fpr[2], fpr_ci_upper |-> fpr[3],
     precision |-> pr.precision[1],
     precision_ci_lower |-> pr.precision[2],
     precision_ci_upper |-> pr.precision[3],
     recall |-> pr.recall[1],
     recall_ci_lower |-> pr.recall[2],
     recall_ci_upper |-> pr.recall[3],
     true_positives |-> cm.tp, false_positives |-> cm.fp,
     true_negatives |-> cm.tn, false_negatives |-> cm.fp,
     auc_roc |-> auc, total_samples |-> total]

\* the PerformanceMetrics object built at the end of
\* calculate_all_performance_metrics
PerformanceMetrics(f1, fpr, pr, cm, auc, total) ==
    [f1_score |-> f1[1], f1_ci_lower |-> f1[2], f1_ci_upper |-> f1[3],
     fpr |-> fpr[1], fpr_ci_lower |-> fpr[2], fpr_ci_upper |-> fpr[3],
     precision |-> pr.precision[1],
     precision_ci_lower |-> pr.precision[2],
     precision_ci_upper |-> pr.precision[3],
     recall |-> pr.recall[1],
     recall_ci_lower |-> pr.recall[2],
     recall_ci_upper |-> pr.recall[3],
     true_positives |-> cm.tp, false_positives |-> cm.fp,
     true_negatives |-> cm.tn, false_negatives |-> cm.fn,
     auc_roc |-> auc, total_samples |-> total]

\* the validation at the head of calculate_all_performance_metrics
AllRejects(yt) == Len(yt) = 0

\* y_scores=None, and an array of continuous scores
NoScores == [given |-> FALSE, values |-> <<>>]

Scores(values) == [given |-> TRUE, values |-> values]

\* roc_auc_score(y_true, y_scores) raises: the arrays are not of one length
\* (a ground truth of one class only is excluded before the call)
AucFails(yt, ys) == Len(ys.values) # Len(yt)

\* roc_auc_score: the share of (positive, negative) pairs the scores rank
\* correctly, a tie counting one half
roc_auc_score(yt, ys) ==
    LET v == ys.values
        pairs == {p \in (1..Len(yt)) \X (1..Len(yt)) :
                     yt[p[1]] = 1 /\ yt[p[2]] = 0}
        won == Cardinality({p \in pairs : v[p[1]] > v[p[2]]})
        tied == Cardinality({p \in pairs : v[p[1]] = v[p[2]]})
    IN  Ratio(2 * won + tied, 2 * Cardinality(pairs))

\* the class test left out
BothClassesUnchecked(yt) == TRUE

\* len(np.unique(y_true)) == 2
BothClasses(yt) ==
    (\E i \in 1..Len(yt) : yt[i] = 1) /\ (\E i \in 1..Len(yt) : yt[i] = 0)

\* auc_roc of the snapshot: None unless scores are given, both classes are
\* present and roc_auc_score returns; its exception is logged and dropped
AucRoc(yt, ys) ==
    IF ys.given /\ BothClasses(yt)
    THEN IF AucFails(yt, ys) THEN NoAuc ELSE roc_auc_score(yt, ys)
    ELSE NoAuc

\* if len(y_true) < 30: logger.warning("small_sample_size", ...); the
\* warning goes to the log, the computation goes on
SMALL_SAMPLE == 30

SmallSampleLog(yt) ==
    IF Len(yt) < SMALL_SAMPLE THEN <<"small_sample_size">> ELSE <<>>

\* what an invocation returned or raised, with what it logged on the way
Logged(r, log) == [r EXCEPT !.log = log]

calculate_all_performance_metrics(yt, yp, ys, conf, nboot, seed, x) ==
    IF AllRejects(yt)
    THEN Raise("empty_dataset", "validation", <<>>, x)
    ELSE Logged(
         LET a == calculate_f1_with_ci(yt, yp, conf, nboot, seed, x)
         IN  IF a.status = "error" THEN a
             ELSE
             LET b == calculate_fpr_with_ci(yt, yp, conf, nboot, seed, a.rng)
             IN  IF b.status = "error"
                 THEN [b EXCEPT !.steps = a.steps \o b.steps]
                 ELSE
                 LET c == calculate_precision_recall_with_ci(
                              yt, yp, conf, nboot, seed, b.rng)
                 IN  IF c.status = "error"
                     THEN [c EXCEPT !.steps = a.steps \o b.steps \o c.steps]
                     ELSE Return(PerformanceMetrics(a.out, b.out, c.out,
                                     confusion_matrix(yt, yp), AucRoc(yt, ys),
                                     Len(yt)),
                                 [f1 |-> a.indices, fpr |-> b.indices,
                                  pr |-> c.indices],
                                 [f1_score |-> a.scores.f1_score,
                                  fpr |-> b.scores.fpr,
                                  precision |-> c.scores.precision,
                                  recall |-> c.scores.recall],
                                 a.steps \o b.steps \o c.steps, c.rng),
         SmallSampleLog(yt))

\* ------------------------------------------------------ threshold policy
\* a value printed with four decimals ({x:.4f}), in units of 1/10000:
\* v * 10000 / Scale rounded to the nearest integer
Fmt4(v) == (v * 10 + Scale \div 2000) \div (Scale \div 1000)

Failure(text, v, limit) == [text |-> text, value |-> Fmt4(v), threshold |-> limit]

\* the policy with the point-F1 rule made strict: a value equal to the
\* threshold is reported as a failure
meets_thresholds_strict(m) ==
    LET failures ==
            (IF m.f1_score <= MIN_F1_SCORE
             THEN <<Failure("F1 score below threshold", m.f1_score, MIN_F1_SCORE)>>
             ELSE <<>>)
         \o (IF m.fpr > MAX_FPR
             THEN <<Failure("FPR exceeds threshold", m.fpr, MAX_FPR)>>
             ELSE <<>>)
         \o (IF m.f1_ci_lower < MIN_F1_SCORE
             THEN <<Failure("F1 CI lower bound below threshold",
                            m.f1_ci_lower, MIN_F1_SCORE)>>
             ELSE <<>>)
         \o (IF m.fpr_ci_upper > MAX_FPR
             THEN <<Failure("FPR CI upper bound exceeds threshold",
                            m.fpr_ci_upper, MAX_FPR)>>
             ELSE <<>>)
    IN  [passes |-> Len(failures) = 0, failures |-> failures]

\* the policy returning at the first violated rule
meets_thresholds_first_only(m) ==
    LET failures ==
            IF m.f1_score < MIN_F1_SCORE
            THEN <<Failure("F1 score below threshold", m.f1_score, MIN_F1_SCORE)>>
            ELSE IF m.fpr > MAX_FPR
            THEN <<Failure("FPR exceeds threshold", m.fpr, MAX_FPR)>>
            ELSE IF m.f1_ci_lower < MIN_F1_SCORE
            THEN <<Failure("F1 CI lower bound below threshold",
                           m.f1_ci_lower, MIN_F1_SCORE)>>
            ELSE IF m.fpr_ci_upper > MAX_FPR
            THEN <<Failure("FPR CI upper bound exceeds threshold",
                           m.fpr_ci_upper, MAX_FPR)>>
            ELSE <<>>
    IN  [passes |-> Len(failures) = 0, failures |-> failures]

\* PerformanceMetrics.meets_deployment_thresholds
meets_deployment_thresholds(m) ==
    LET failures ==
            (IF m.f1_score < MIN_F1_SCORE
             THEN <<Failure("F1 score below threshold", m.f1_score, MIN_F1_SCORE)>>
             ELSE <<>>)
         \o (IF m.fpr > MAX_FPR
             THEN <<Failure("FPR exceeds threshold", m.fpr, MAX_FPR)>>
             ELSE <<>>)
         \o (IF m.f1_ci_lower < MIN_F1_SCORE
             THEN <<Failure("F1 CI lower bound below threshold",
                            m.f1_ci_lower, MIN_F1_SCORE)>>
             ELSE <<>>)
         \o (IF m.fpr_ci_upper > MAX_FPR
             THEN <<Failure("FPR CI upper bound exceeds threshold",
                            m.fpr_ci_upper, MAX_FPR)>>
             ELSE <<>>)
    IN  [passes |-> Len(failures) = 0, failures |-> failures]

\* ------------------------------------------------- degradation detection
Abs(v) == IF v < 0 THEN -v ELSE v

NoChange == <<>>

\* overlap with touching intervals counted as disjoint
IntervalsOverlapStrict(lo1, hi1, lo2, hi2) == ~(hi2 <= lo1 \/ lo2 >= hi1)

\* 'confidence_intervals_overlap' of compare_metrics
IntervalsOverlap(lo1, hi1, lo2, hi2) == ~(hi2 < lo1 \/ lo2 > hi1)

\* degradation decided on the point values alone
F1DegradedPointOnly(val1, lo1, hi1, val2, lo2, hi2) == val2 < val1

\* 'significant_degradation' of compare_metrics for metric_name 'f1_score'
F1Degraded(val1, lo1, hi1, val2, lo2, hi2) == (hi2 < lo1) /\ (val2 < val1)

\* 'significant_degradation' of compare_metrics for metric_name 'fpr'
FprDegraded(val1, lo1, hi1, val2, lo2, hi2) == (lo2 > hi1) /\ (val2 > val1)

Comparison(name, val1, lo1, hi1, val2, lo2, hi2, degraded) ==
    [status |-> "ok",
     metric_name |-> name,
     metrics1_value |-> val1, metrics1_ci |-> <<lo1, hi1>>,
     metrics2_value |-> val2, metrics2_ci |-> <<lo2, hi2>>,
     absolute_difference |-> Abs(val2 - val1),
     \* the quotient (val2 - val1) / val1, kept as numerator and denominator
     relative_change |-> IF val1 # 0 THEN <<val2 - val1, val1>> ELSE NoChange,
     confidence_intervals_overlap |-> IntervalsOverlap(lo1, hi1, lo2, hi2),
     significant_degradation |-> degraded]

\* a comparison that also accepts 'precision', handled like F1
compare_metrics_with_precision(m1, m2, name) ==
    IF name = "f1_score" \/ name = "precision"
    THEN LET v1 == IF name = "precision" THEN m1.precision ELSE m1.f1_score
             v2 == IF name = "precision" THEN m2.precision ELSE m2.f1_score
         IN  Comparison(name, v1, m1.f1_ci_lower, m1.f1_ci_upper,
                        v2, m2.f1_ci_lower, m2.f1_ci_upper,
                        F1Degraded(v1, m1.f1_ci_lower, m1.f1_ci_upper,
                                   v2, m2.f1_ci_lower, m2.f1_ci_upper))
    ELSE IF name = "fpr"
    THEN Comparison(name, m1.fpr, m1.fpr_ci_lower, m1.fpr_ci_upper,
                    m2.fpr, m2.fpr_ci_lower, m2.fpr_ci_upper,
                    FprDegraded(m1.fpr, m1.fpr_ci_lower, m1.fpr_ci_upper,
                                m2.fpr, m2.fpr_ci_lower, m2.fpr_ci_upper))
    ELSE [status |-> "error", error |-> "unknown_metric_name", metric_name |-> name]

compare_metrics(m1, m2, name) ==
    IF name = "f1_score"
    THEN Comparison(name, m1.f1_score, m1.f1_ci_lower, m1.f1_ci_upper,
                    m2.f1_score, m2.f1_ci_lower, m2.f1_ci_upper,
                    F1Degraded(m1.f1_score, m1.f1_ci_lower, m1.f1_ci_upper,
                               m2.f1_score, m2.f1_ci_lower, m2.f1_ci_upper))
    ELSE IF name = "fpr"
    THEN Comparison(name, m1.fpr, m1.fpr_ci_lower, m1.fpr_ci_upper,
                    m2.fpr, m2.fpr_ci_lower, m2.fpr_ci_upper,
                    FprDegraded(m1.fpr, m1.fpr_ci_lower, m1.fpr_ci_upper,
                                m2.fpr, m2.fpr_ci_lower, m2.fpr_ci_upper))
    ELSE [status |-> "error", error |-> "unknown_metric_name", metric_name |-> name]

\* round(x, 4), in units of 1/10000: x * 10000 rounded to the nearest
\* integer
Round4(v) == (v * 10 + Scale \div 2000) \div (Scale \div 1000)

MetricFields ==
    {"f1_score", "f1_ci_lower", "f1_ci_upper", "fpr", "fpr_ci_lower",
     "fpr_ci_upper", "precision", "precision_ci_lower", "precision_ci_upper",
     "recall", "recall_ci_lower", "recall_ci_upper"}

CountFields ==
    {"true_positives", "false_positives", "true_negatives", "false_negatives",
     "total_samples"}

\* round(self.auc_roc, 4) if self.auc_roc else None: None for every falsy
\* auc_roc, that is for None and for 0.0
AucEntry(auc) == IF auc # NoAuc /\ auc # 0 THEN Round4(auc) ELSE NoAuc

\* a reading method that rounds the metrics of the object itself, to
\* whole percents
SnapshotRoundedInPlace(m) ==
    [k \in DOMAIN m |->
        IF k \in MetricFields
        THEN (m[k] \div (Scale \div 100)) * (Scale \div 100)
        ELSE m[k]]

\* the snapshot after meets_deployment_thresholds, to_dict or
\* compare_metrics has read it: none of them assigns to a field
SnapshotAfter(m) == m

\* PerformanceMetrics.to_dict
to_dict(m) ==
    [k \in MetricFields \cup CountFields \cup {"auc_roc"} |->
        IF k \in MetricFields THEN Round4(m[k])
        ELSE IF k \in CountFields THEN m[k]
        ELSE AucEntry(m.auc_roc)]

\* ----------------------------------------------------------------- state
VARIABLES
    y_true, y_pred,      \* the label arrays handed to the engine
    y_scores,            \* the continuous scores handed to it, if any
    confidence,          \* confidence level, percent
    n_bootstrap,         \* bootstrap iterations
    random_state,        \* seed
    rng,                 \* state of the process-wide numpy generator
    returned,            \* per engine function: what its last invocation
                         \* returned or raised
    metrics1, metrics2,  \* two PerformanceMetrics objects held by a caller
    outcome,             \* the result of the last policy / comparison call
    conc,                \* per metric bootstrap run as a task of its own:
                         \* its position, point estimate and scores so far
    batch,               \* a calculate_per_model_metrics run and the
                         \* module global it toggles
    generator,           \* a SyntheticDataGenerator.generate_all run
    decision             \* the decision generate_decisions produced last

inputs == <<y_true, y_pred, y_scores, confidence, n_bootstrap, random_state>>
engine == <<rng, returned>>
policy == <<metrics1, metrics2, outcome>>
script == <<batch, generator, decision>>
vars == <<inputs, engine, policy, conc, script>>

Tasks == {"f1", "fpr", "pr"}

Idle == [pc |-> "idle", point |-> <<>>, scores |-> <<>>, out |-> <<>>]

NoTasks == [w \in Tasks |-> Idle]

Functions == {"f1", "fpr", "pr", "all"}

NoRet == Raise("", "", <<>>, 0)

NoMetrics == [f1_score |-> 0]

NoOutcome == [op |-> "none"]

NoBatch == [pc |-> "idle"]

NoGenerator == [pc |-> "idle"]

NoDecision == [decision_id |-> 0]

\* no per-model run, no generator run
ScriptIdle == batch = NoBatch /\ generator = NoGenerator /\ decision = NoDecision

Init ==
    /\ \E p \in InputPairs : y_true = p[1] /\ y_pred = p[2]
    /\ confidence \in ConfLevels
    /\ n_bootstrap \in 1..MaxB
    /\ random_state \in 0..MaxSeed
    /\ rng \in 0..(RngMod - 1)
    /\ returned = [f \in Functions |-> NoRet]
    /\ metrics1 = NoMetrics
    /\ metrics2 = NoMetrics
    /\ outcome = NoOutcome
    /\ conc = NoTasks
    /\ y_scores = NoScores
    /\ ScriptIdle

\* an invocation ends: the caller holds what it returned or raised, the
\* process-wide generator is where the invocation left it
Finish(name, r) ==
    /\ returned' = [returned EXCEPT ![name] = [r EXCEPT !.rng = 0]]
    /\ rng' = r.rng
    /\ UNCHANGED <<inputs, policy, conc, script>>

CalcF1 ==
    Finish("f1", calculate_f1_with_ci(
                     y_true, y_pred, confidence, n_bootstrap, random_state, rng))

CalcFpr ==
    Finish("fpr", calculate_fpr_with_ci(
                      y_true, y_pred, confidence, n_bootstrap, random_state, rng))

CalcPr ==
    Finish("pr", calculate_precision_recall_with_ci(
                     y_true, y_pred, confidence, n_bootstrap, random_state, rng))

CalcAll ==
    Finish("all", calculate_all_performance_metrics(
                      y_true, y_pred, y_scores, confidence, n_bootstrap,
                      random_state, rng))

\* any other consumer of the process-wide generator draws a number
OtherDraw ==
    /\ rng' = NpStep(rng)
    /\ UNCHANGED <<inputs, returned, policy, conc, script>>

Next == CalcF1 \/ CalcFpr \/ CalcPr \/ CalcAll \/ OtherDraw

Spec == Init /\ [][Next]_vars

\* ------------------------------------- the engine in a process of its own
\* the module has just been imported and nothing else draws from the
\* generator: the four functions are invoked, in any order, on one input
InitCalls ==
    /\ \E p \in InputPairs : y_true = p[1] /\ y_pred = p[2]
    /\ confidence \in ConfLevels
    /\ n_bootstrap \in 1..MaxB
    /\ random_state \in 0..MaxSeed
    /\ rng = 0
    /\ returned = [f \in Functions |-> NoRet]
    /\ metrics1 = NoMetrics
    /\ metrics2 = NoMetrics
    /\ outcome = NoOutcome
    /\ conc = NoTasks
    /\ y_scores = NoScores
    /\ ScriptIdle

NextCalls == CalcF1 \/ CalcFpr \/ CalcPr \/ CalcAll

SpecCalls == InitCalls /\ [][NextCalls]_vars

\* ------------------------------------ a snapshot computed and serialized
MaxScore == 1

\* the score arrays handed in with ground truth yt: none, every array of
\* its length over the score levels (for the short inputs), the labels
\* themselves and their complement, and an array one element too long
ScoreInputs(yt) ==
    LET n == Len(yt)
        same == IF n <= MaxN THEN [1..n -> 0..MaxScore] ELSE {}
    IN  {NoScores}
            \cup {Scores(v) : v \in same}
            \cup {Scores(yt), Scores([i \in 1..n |-> 1 - yt[i]])}
            \cup {Scores([i \in 1..(n + 1) |-> 0])}

\* calculate_all_performance_metrics(y_true, y_pred, y_scores) with the
\* default confidence and seed
InitSnapshot ==
    /\ \E p \in InputPairs : y_true = p[1] /\ y_pred = p[2]
    /\ y_scores \in ScoreInputs(y_true)
    /\ confidence = 95
    /\ n_bootstrap \in 1..MaxB
    /\ random_state = 0
    /\ rng = 0
    /\ returned = [f \in Functions |-> NoRet]
    /\ metrics1 = NoMetrics
    /\ metrics2 = NoMetrics
    /\ outcome = NoOutcome
    /\ conc = NoTasks
    /\ ScriptIdle

\* metrics.to_dict() on the snapshot the call returned
ToDict ==
    /\ returned["all"].status = "ok"
    /\ outcome' = [op |-> "to_dict", of |-> 0,
                   result |-> to_dict(returned["all"].out)]
    /\ UNCHANGED <<inputs, engine, metrics1, metrics2, conc, script>>

NextSnapshot == CalcAll \/ ToDict

SpecSnapshot == InitSnapshot /\ [][NextSnapshot]_vars

\* ------------------------------------------------- per-model breakdown
MaxModels == 2

\* BOOTSTRAP_ITERATIONS = int(os.getenv('BOOTSTRAP_ITERATIONS', '10000'))
BOOTSTRAP_DEFAULT == 10000

\* globals()['BOOTSTRAP_ITERATIONS'] = 1000 in calculate_per_model_metrics
PER_MODEL_ITERATIONS == 1000

\* random_state: int = 42
DEFAULT_SEED == 42

\* the values the module global can take at import: the default, or a
\* count set in the environment
ConfiguredIterations == {BOOTSTRAP_DEFAULT} \cup (1..MaxB)

\* the iterations run for a bootstrap of n: a bootstrap longer than MaxB
\* is cut off at MaxB
Iterated(n) == IF n > MaxB THEN MaxB ELSE n

ModelIds == 1..MaxModels

\* the resolved decisions of one model as <<y_true, y_pred>>: none, or
\* one of a few label-pair sets
PerModelData ==
    {<<<<>>, <<>>>>, <<<<0>>, <<0>>>>, <<<<1, 1>>, <<0, 1>>>>,
     <<<<1, 0>>, <<1, 1>>>>} \cup ExamplePairs

\* the tally with false positives and false negatives exchanged
TallyExchanged(yt, yp) ==
    [tp |-> Cardinality({i \in 1..Len(yt) : yt[i] # 0 /\ yp[i] # 0}),
     fp |-> Cardinality({i \in 1..Len(yt) : yt[i] # 0 /\ yp[i] = 0}),
     fn |-> Cardinality({i \in 1..Len(yt) : yt[i] = 0 /\ yp[i] # 0}),
     tn |-> Cardinality({i \in 1..Len(yt) : yt[i] = 0 /\ yp[i] = 0})]

\* tp, fp, fn, tn summed over zip(y_true, y_pred) by truthiness
Tally(yt, yp) ==
    [tp |-> Cardinality({i \in 1..Len(yt) : yt[i] # 0 /\ yp[i] # 0}),
     fp |-> Cardinality({i \in 1..Len(yt) : yt[i] = 0 /\ yp[i] # 0}),
     fn |-> Cardinality({i \in 1..Len(yt) : yt[i] # 0 /\ yp[i] = 0}),
     tn |-> Cardinality({i \in 1..Len(yt) : yt[i] = 0 /\ yp[i] = 0})]

\* the n_bootstrap of calculate_all_performance_metrics(y_true, y_pred):
\* the default of the parameter, bound to the module global when the
\* function was defined, whatever the global holds at the call
DefaultIterations(at_import, at_call) == at_import

\* per_model_results[model_id]; n_bootstrap is the iteration count the
\* call asked of the engine
Entry(id, r, yt, yp, asked) ==
    [model_name |-> id, model_version |-> id,
     metrics |-> r.out,
     confusion_matrix |-> Tally(yt, yp),
     total_decisions |-> Len(yt),
     n_bootstrap |-> asked]

\* per_model_results[model_id] = {...}: the dict with the entry stored
\* under the model's id
Stored(results, id, e) ==
    [i \in DOMAIN results \cup {id} |-> IF i = id THEN e ELSE results[i]]

\* the loop over the models from the k-th on; the query numbered `fails`
\* raises (0: none does), the first query being the one for the models
RECURSIVE PerModelLoop(_, _, _, _, _, _)
RECURSIVE PerModelBody(_, _, _, _, _, _, _)
PerModelLoop(k, db, results, at_import, x, fails) ==
    IF k > MaxModels
    THEN [pc |-> "returned", results |-> results, rng |-> x]
    ELSE IF fails = k + 1
    THEN [pc |-> "raised", results |-> results, rng |-> x]
    ELSE IF db[k][1] = <<>>
    THEN PerModelLoop(k + 1, db, results, at_import, x, fails)
    ELSE PerModelBody(k, db, results, at_import, fails,
             DefaultIterations(at_import, PER_MODEL_ITERATIONS),
             calculate_all_performance_metrics(
                 db[k][1], db[k][2], NoScores, 95,
                 Iterated(DefaultIterations(at_import, PER_MODEL_ITERATIONS)),
                 DEFAULT_SEED, x))

\* the rest of one iteration, given the metrics r of the model
PerModelBody(k, db, results, at_import, fails, asked, r) ==
    PerModelLoop(k + 1, db,
        Stored(results, k, Entry(k, r, db[k][1], db[k][2], asked)),
        at_import, r.rng, fails)

\* the end of the call: the global is restored by the statement before the
\* return and by nothing else
PerModelEnd(run, original_bootstrap) ==
    [pc |-> run.pc, results |-> run.results, rng |-> run.rng,
     BOOTSTRAP_ITERATIONS |->
         IF run.pc = "returned" THEN original_bootstrap
         ELSE PER_MODEL_ITERATIONS]

\* calculate_per_model_metrics(cursor): how it ended, the results it
\* built, and the module global afterwards
calculate_per_model_metrics(db, at_import, global, x, fails) ==
    IF fails = 1
    THEN [pc |-> "raised", results |-> <<>>, rng |-> x,
          BOOTSTRAP_ITERATIONS |-> global]
    ELSE PerModelEnd(PerModelLoop(1, db, <<>>, at_import, x, fails), global)

\* the status columns of the report for one result: the literals 0.85 and
\* 0.01 against the interval bounds
ReportRow(m) ==
    LET f1_ok == m.f1_ci_lower >= (85 * Scale) \div 100
        fpr_ok == m.fpr_ci_upper <= (1 * Scale) \div 100
    IN  [f1_status |-> IF f1_ok THEN "PASS" ELSE "FAIL",
         fpr_status |-> IF fpr_ok THEN "PASS" ELSE "FAIL",
         overall_status |-> IF f1_ok /\ fpr_ok THEN "PASS" ELSE "FAIL"]

\* the module has been imported with some iteration count configured; the
\* database holds the resolved decisions of the models
InitPerModel ==
    /\ y_true = <<>> /\ y_pred = <<>>
    /\ y_scores = NoScores
    /\ confidence = 95
    /\ n_bootstrap \in ConfiguredIterations
    /\ random_state = DEFAULT_SEED
    /\ rng = 0
    /\ returned = [f \in Functions |-> NoRet]
    /\ metrics1 = NoMetrics
    /\ metrics2 = NoMetrics
    /\ outcome = NoOutcome
    /\ conc = NoTasks
    /\ \E db \in [ModelIds -> PerModelData] :
           batch = [pc |-> "idle", db |-> db, results |-> <<>>,
                    before |-> n_bootstrap,
                    BOOTSTRAP_ITERATIONS |-> n_bootstrap,
                    report |-> <<>>]
    /\ generator = NoGenerator
    /\ decision = NoDecision

\* per_model_results = calculate_per_model_metrics(cursor)
PerModel ==
    /\ batch.pc = "idle"
    /\ \E fails \in 0..(MaxModels + 1) :
       \E run \in {calculate_per_model_metrics(
                       batch.db, n_bootstrap, batch.BOOTSTRAP_ITERATIONS,
                       rng, fails)} :
           /\ batch' = [batch EXCEPT
                            !.pc = run.pc,
                            !.results = run.results,
                            !.BOOTSTRAP_ITERATIONS = run.BOOTSTRAP_ITERATIONS]
           /\ rng' = run.rng
    /\ UNCHANGED <<inputs, returned, policy, conc, generator, decision>>

\* the summary rows the script prints and writes for the results
Report ==
    /\ batch.pc = "returned"
    /\ batch' = [batch EXCEPT
                     !.pc = "reported",
                     !.report = [id \in DOMAIN batch.results |->
                                    ReportRow(batch.results[id].metrics)]]
    /\ UNCHANGED <<inputs, engine, policy, conc, generator, decision>>

NextPerModel == PerModel \/ Report

SpecPerModel == InitPerModel /\ [][NextPerModel]_vars

\* --------------------------------------------- synthetic data generator
MaxDecisions == 2

\* self.database_url as the parts split('@') gives: a URL with credentials
\* before the host, and a connection string without '@'
DatabaseUrls ==
    { <<"postgresql://afaap:afaap", "localhost:5432/afaap">>,
      <<"dbname=afaap host=localhost">> }

\* the calls of the try block of generate_all, in their order; the last one
\* stands for the four REFRESH statements, the commit and the summary
Steps ==
    <<"roles", "users", "models", "transactions", "decisions",
      "revalidation_workflows", "failure_incidents", "view_refresh">>

Officers == {"officer_0", "officer_1"}

Auditors == {"auditor_0"}

\* is_fraud of the transaction, or None when the row has none
ActualFraud == {"True", "False", "None"}

\* confidences are counted in hundred-thousandths
Hundredths(n) == n * 1000

REVIEW_CONFIDENCE == Hundredths(60)

\* random.uniform(a, b): the ends, the middle, and the values next to the
\* review level that lie between the ends
random_uniform(a, b) ==
    {a, b, (a + b) \div 2}
        \cup {c \in {REVIEW_CONFIDENCE, REVIEW_CONFIDENCE + 4,
                     REVIEW_CONFIDENCE + 6, REVIEW_CONFIDENCE + 1000} :
                 a <= c /\ c <= b}

\* the confidences the model can give for a transaction and a prediction
Confidences(actual_fraud, prediction_fraud) ==
    IF actual_fraud = "True"
    THEN IF prediction_fraud
         THEN random_uniform(Hundredths(70), Hundredths(95))
         ELSE random_uniform(Hundredths(30), Hundredths(60))
    ELSE IF actual_fraud = "False"
    THEN IF prediction_fraud
         THEN random_uniform(Hundredths(10), Hundredths(40))
         ELSE random_uniform(Hundredths(5), Hundredths(30))
    ELSE random_uniform(Hundredths(40), Hundredths(80))

\* round(confidence, 4), in ten-thousandths, a tie going to the even digit
RoundConfidence(c) ==
    LET q == c \div 10
        r == c % 10
    IN  IF r > 5 \/ (r = 5 /\ q % 2 = 1) THEN q + 1 ELSE q

\* a decision is put up for review on the prediction alone
needs_review_any_flag(prediction_fraud, conf) == prediction_fraud

\* needs_review = prediction_fraud and confidence > 0.6
needs_review(prediction_fraud, conf) ==
    prediction_fraud /\ conf > REVIEW_CONFIDENCE

\* the decisions an officer can take, by ground truth and prediction
OfficerDecisions(actual_fraud, prediction_fraud) ==
    IF actual_fraud = "True" /\ prediction_fraud
    THEN {"block_transaction", "escalate"}
    ELSE IF actual_fraud = "False" /\ prediction_fraud
    THEN {"approve_transaction", "false_positive", "escalate"}
    ELSE IF actual_fraud = "True" /\ ~prediction_fraud
    THEN {"escalate"}
    ELSE {"approve_transaction"}

\* {...}.get(officer_decision, 'pending')
FinalDecision(officer_decision) ==
    IF officer_decision = "approve_transaction" THEN "approved"
    ELSE IF officer_decision = "block_transaction" THEN "blocked"
    ELSE IF officer_decision = "escalate" THEN "escalated"
    ELSE IF officer_decision = "false_positive" THEN "approved"
    ELSE "pending"

\* audit_trail_complete = all([... is not None ...])
AuditTrailComplete(reviewed_by, officer_decision, decision_timestamp, officer_notes) ==
    /\ reviewed_by # "None"
    /\ officer_decision # "None"
    /\ decision_timestamp # "None"
    /\ officer_notes # "None"

\* the tuple appended to decisions_data, with the confidence as drawn
\* beside the rounded confidence_score
DecisionRow(id, drawn, review) ==
    [decision_id |-> id,
     actual_fraud |-> drawn.actual_fraud,
     prediction_fraud |-> drawn.prediction_fraud,
     confidence |-> drawn.confidence,
     confidence_score |-> RoundConfidence(drawn.confidence),
     reviewed_by |-> review.reviewed_by,
     officer_decision |-> review.officer_decision,
     officer_notes |-> review.officer_notes,
     decision_timestamp |-> review.decision_timestamp,
     final_decision |-> review.final_decision,
     escalated_to |-> review.escalated_to,
     audit_trail_complete |->
         AuditTrailComplete(review.reviewed_by, review.officer_decision,
                            review.decision_timestamp, review.officer_notes)]

\* the model's output for one transaction
Drawn(actual_fraud, prediction_fraud, conf) ==
    [actual_fraud |-> actual_fraud, prediction_fraud |-> prediction_fraud,
     confidence |-> conf]

\* the else branch of the review: no field is set
NotReviewed ==
    [reviewed_by |-> "None", officer_decision |-> "None",
     officer_notes |-> "None", decision_timestamp |-> "None",
     final_decision |-> "pending", escalated_to |-> "None"]

\* the review by an officer who takes the decision d
ReviewedBy(officer, d, auditor) ==
    [reviewed_by |-> officer, officer_decision |-> d,
     officer_notes |-> "notes", decision_timestamp |-> "datetime",
     final_decision |-> FinalDecision(d),
     escalated_to |-> IF d = "escalate" THEN auditor ELSE "None"]

\* the decisions one pass of the loop of generate_decisions can produce
Decisions(id) ==
    UNION {
      UNION {
        IF needs_review(p, c)
        THEN {DecisionRow(id, Drawn(a, p, c), NotReviewed)}
             \cup {DecisionRow(id, Drawn(a, p, c), ReviewedBy(officer, d, auditor))
                      : officer \in Officers, d \in OfficerDecisions(a, p),
                        auditor \in Auditors}
        ELSE {DecisionRow(id, Drawn(a, p, c), NotReviewed)}
        : c \in Confidences(a, p)}
      : a \in ActualFraud, p \in BOOLEAN}

\* SyntheticDataGenerator(database_url) before generate_all
NewGenerator(database_url) ==
    [pc |-> "idle", database_url |-> database_url,
     conn |-> "None", cur |-> "None",
     conn_closed |-> 0, cur_closed |-> 0,
     ran |-> <<>>, todo |-> 0,
     rolled_back |-> 0, committed |-> FALSE, raised |-> ""]

InitGenerator ==
    /\ y_true = <<>> /\ y_pred = <<>>
    /\ y_scores = NoScores
    /\ confidence = 95
    /\ n_bootstrap = 1
    /\ random_state = 0
    /\ rng = 0
    /\ returned = [f \in Functions |-> NoRet]
    /\ metrics1 = NoMetrics
    /\ metrics2 = NoMetrics
    /\ outcome = NoOutcome
    /\ conc = NoTasks
    /\ batch = NoBatch
    /\ generator \in {NewGenerator(url) : url \in DatabaseUrls}
    /\ decision = NoDecision

\* self.connect(), before the try block: psycopg2.connect raises, or the
\* connection and cursor are opened and the host part of the URL printed
Connect ==
    /\ generator.pc = "idle"
    /\ \/ generator' = [generator EXCEPT !.pc = "raised",
                                          !.raised = "OperationalError"]
       \/ generator' =
              [generator EXCEPT
                  !.conn = "open", !.cur = "open",
                  !.pc = IF Len(generator.database_url) < 2
                         THEN "raised" ELSE "try",
                  !.raised = IF Len(generator.database_url) < 2
                             THEN "IndexError" ELSE ""]
    /\ UNCHANGED <<inputs, engine, policy, conc, batch, decision>>

\* the next call of the try block
NextStep == Steps[Len(generator.ran) + 1]

\* one call of the try block other than generate_decisions: it returns, or
\* it raises
GenerateStep ==
    /\ generator.pc = "try"
    /\ NextStep # "decisions"
    /\ \/ generator' =
              [generator EXCEPT
                  !.ran = Append(@, NextStep),
                  !.committed = (NextStep = "view_refresh"),
                  !.pc = IF NextStep = "view_refresh"
                         THEN "finally" ELSE "try"]
       \/ generator' = [generator EXCEPT !.ran = Append(@, NextStep),
                                          !.pc = "except",
                                          !.raised = NextStep]
    /\ UNCHANGED <<inputs, engine, policy, conc, batch, decision>>

\* the head of generate_decisions: no deployed model and a return, or the
\* transactions to decide are sampled
BeginDecisions ==
    /\ generator.pc = "try"
    /\ NextStep = "decisions"
    /\ \/ generator' = [generator EXCEPT !.ran = Append(@, NextStep)]
       \/ \E n \in 0..MaxDecisions :
              generator' = [generator EXCEPT !.ran = Append(@, NextStep),
                                             !.todo = n,
                                             !.pc = "decisions"]
    /\ UNCHANGED <<inputs, engine, policy, conc, batch, decision>>

\* one pass of the loop of generate_decisions: the query for the ground
\* truth raises, or a decision is appended
Decide ==
    /\ generator.pc = "decisions"
    /\ generator.todo > 0
    /\ \/ /\ generator' = [generator EXCEPT !.pc = "except",
                                             !.raised = "decisions"]
          /\ UNCHANGED decision
       \/ /\ generator' = [generator EXCEPT !.todo = @ - 1]
          /\ decision' \in Decisions(decision.decision_id + 1)
    /\ UNCHANGED <<inputs, engine, policy, conc, batch>>

\* the insert and commit that end generate_decisions
InsertDecisions ==
    /\ generator.pc = "decisions"
    /\ generator.todo = 0
    /\ \/ generator' = [generator EXCEPT !.pc = "try"]
       \/ generator' = [generator EXCEPT !.pc = "except",
                                          !.raised = "decisions"]
    /\ UNCHANGED <<inputs, engine, policy, conc, batch, decision>>

\* except Exception: self.conn.rollback(); raise
Except ==
    /\ generator.pc = "except"
    /\ generator' = [generator EXCEPT !.rolled_back = @ + 1,
                                      !.pc = "finally"]
    /\ UNCHANGED <<inputs, engine, policy, conc, batch, decision>>

\* finally: self.disconnect()
Disconnect ==
    /\ generator.pc = "finally"
    /\ generator' =
           [generator EXCEPT
               !.cur = IF @ # "None" THEN "closed" ELSE @,
               !.cur_closed = IF generator.cur # "None" THEN @ + 1 ELSE @,
               !.conn = IF @ # "None" THEN "closed" ELSE @,
               !.conn_closed = IF generator.conn # "None" THEN @ + 1 ELSE @,
               !.pc = IF generator.raised = "" THEN "done" ELSE "raised"]
    /\ UNCHANGED <<inputs, engine, policy, conc, batch, decision>>

NextGenerator ==
    \/ Connect
    \/ GenerateStep
    \/ BeginDecisions
    \/ Decide
    \/ InsertDecisions
    \/ Except
    \/ Disconnect

SpecGenerator == InitGenerator /\ [][NextGenerator]_vars

\* ------------------------------------------- policy over given snapshots
Percent(k) == (k * Scale) \div 100
PerMille(k) == (k * Scale) \div 1000

\* value and interval of one metric: <<value, ci_lower, ci_upper>>, the
\* interval well-formed, the value anywhere (a bootstrap interval need not
\* contain its point estimate)
Estimates(grid) ==
    {t \in grid \X grid \X grid : t[2] <= t[3]}

F1Grid == {Percent(80), Percent(85), Percent(90)}
FprGrid == {PerMille(5), PerMille(10), PerMille(20)}

Snapshot(f1, fpr) ==
    [f1_score |-> f1[1], f1_ci_lower |-> f1[2], f1_ci_upper |-> f1[3],
     fpr |-> fpr[1], fpr_ci_lower |-> fpr[2], fpr_ci_upper |-> fpr[3],
     precision |-> 0, precision_ci_lower |-> 0, precision_ci_upper |-> 0,
     recall |-> 0, recall_ci_lower |-> 0, recall_ci_upper |-> 0,
     true_positives |-> 0, false_positives |-> 0,
     true_negatives |-> 0, false_negatives |-> 0,
     auc_roc |-> NoAuc, total_samples |-> 0]

\* the snapshots of the documentation's examples
DocPassing ==
    Snapshot(<<Percent(90), Percent(88), Percent(92)>>,
             <<PerMille(5), PerMille(3), PerMille(8)>>)
DocWeakLower ==
    Snapshot(<<Percent(90), Percent(80), Percent(92)>>,
             <<PerMille(5), PerMille(3), PerMille(8)>>)
DocDegraded ==
    Snapshot(<<Percent(80), Percent(78), Percent(82)>>,
             <<PerMille(5), PerMille(3), PerMille(8)>>)
DocOverlapping ==
    Snapshot(<<Percent(80), Percent(86), Percent(92)>>,
             <<PerMille(5), PerMille(3), PerMille(8)>>)

\* baseline and candidate: every pair over the grid that differs in at most
\* one metric, and the documented pairs
SnapshotPairs ==
    {<<Snapshot(a, b), Snapshot(c, b)>> :
        a \in Estimates(F1Grid), b \in Estimates(FprGrid), c \in Estimates(F1Grid)}
    \cup
    {<<Snapshot(a, b), Snapshot(a, d)>> :
        a \in Estimates(F1Grid), b \in Estimates(FprGrid), d \in Estimates(FprGrid)}
    \cup
    {<<DocPassing, DocWeakLower>>, <<DocPassing, DocDegraded>>,
     <<DocPassing, DocOverlapping>>}

MetricNames == {"f1_score", "fpr", "precision", "recall", "auc_roc"}

InitPolicy ==
    /\ y_true = <<>> /\ y_pred = <<>>
    /\ confidence = 95
    /\ n_bootstrap = 1
    /\ random_state = 0
    /\ rng = 0
    /\ returned = [f \in Functions |-> NoRet]
    /\ \E p \in SnapshotPairs : metrics1 = p[1] /\ metrics2 = p[2]
    /\ outcome = NoOutcome
    /\ conc = NoTasks
    /\ y_scores = NoScores
    /\ ScriptIdle

\* metrics1.meets_deployment_thresholds()
Evaluate1 ==
    /\ outcome' = [op |-> "evaluate", of |-> 1,
                   result |-> meets_deployment_thresholds(metrics1)]
    /\ metrics1' = SnapshotAfter(metrics1)
    /\ UNCHANGED <<inputs, engine, metrics2, conc, script>>

\* metrics2.meets_deployment_thresholds()
Evaluate2 ==
    /\ outcome' = [op |-> "evaluate", of |-> 2,
                   result |-> meets_deployment_thresholds(metrics2)]
    /\ metrics2' = SnapshotAfter(metrics2)
    /\ UNCHANGED <<inputs, engine, metrics1, conc, script>>

\* compare_metrics(metrics1, metrics2, name)
Compare ==
    \E name \in MetricNames :
        /\ outcome' = [op |-> "compare", of |-> 0,
                       result |-> compare_metrics(metrics1, metrics2, name)]
        /\ metrics1' = SnapshotAfter(metrics1)
        /\ metrics2' = SnapshotAfter(metrics2)
        /\ UNCHANGED <<inputs, engine, conc, script>>

\* metrics1.to_dict()
Serialize1 ==
    /\ outcome' = [op |-> "to_dict", of |-> 1, result |-> to_dict(metrics1)]
    /\ metrics1' = SnapshotAfter(metrics1)
    /\ UNCHANGED <<inputs, engine, metrics2, conc, script>>

\* metrics2.to_dict()
Serialize2 ==
    /\ outcome' = [op |-> "to_dict", of |-> 2, result |-> to_dict(metrics2)]
    /\ metrics2' = SnapshotAfter(metrics2)
    /\ UNCHANGED <<inputs, engine, metrics1, conc, script>>

NextPolicy == Evaluate1 \/ Evaluate2 \/ Compare \/ Serialize1 \/ Serialize2

SpecPolicy == InitPolicy /\ [][NextPolicy]_vars


\* ------------------------------------- the bootstraps as interleaved tasks
\* The three bootstrap loops of calculate_f1_with_ci, calculate_fpr_with_ci
\* and calculate_precision_recall_with_ci, each run as a task of its own on
\* valid input.  A task seeds the process-wide generator, then performs its
\* iterations one np.random.randint call at a time; the tasks' steps
\* interleave freely.

ValidPairs == {p \in InputPairs : Len(p[1]) > 0 /\ Len(p[1]) = Len(p[2])}

InitConc ==
    /\ \E p \in ValidPairs : y_true = p[1] /\ y_pred = p[2]
    /\ confidence \in ConfLevels
    /\ n_bootstrap \in 1..MaxB
    /\ random_state \in 0..MaxSeed
    /\ rng = 0
    /\ returned = [f \in Functions |-> NoRet]
    /\ metrics1 = NoMetrics
    /\ metrics2 = NoMetrics
    /\ outcome = NoOutcome
    /\ conc = NoTasks
    /\ y_scores = NoScores
    /\ ScriptIdle

\* the point estimate(s) of a task, computed on the full arrays
PointOf(w) ==
    IF w = "f1" THEN <<f1_score(y_true, y_pred)>>
    ELSE IF w = "fpr"
    THEN LET cm == confusion_matrix(y_true, y_pred)
         IN  <<Ratio(cm.fp, cm.fp + cm.tn)>>
    ELSE <<precision_score(y_true, y_pred), recall_score(y_true, y_pred)>>

\* the score(s) a task computes on one bootstrap sample
ScoreOf(w, ytb, ypb) ==
    IF w = "f1" THEN <<F1Boot(ytb, ypb)>>
    ELSE IF w = "fpr" THEN <<FprBoot(ytb, ypb)>>
    ELSE <<precision_score(ytb, ypb), recall_score(ytb, ypb)>>

SeedStateOf(w) ==
    IF w = "f1" THEN F1SeedState(random_state, rng)
    ELSE IF w = "fpr" THEN FprSeedState(random_state, rng)
    ELSE PrSeedState(random_state, rng)

\* what a task returns from its point estimate(s) and collected scores
OutOf(w, point, scores) ==
    LET Column(k) == [i \in 1..Len(scores) |-> scores[i][k]]
        ci1 == Interval(Column(1), confidence)
    IN  IF w = "pr"
        THEN LET ci2 == Interval(Column(2), confidence)
             IN  [precision |-> <<point[1], ci1[1], ci1[2]>>,
                  recall |-> <<point[2], ci2[1], ci2[2]>>]
        ELSE <<point[1], ci1[1], ci1[2]>>

\* point estimate, then np.random.seed(random_state); the FPR task returns
\* at once when the data holds no negatives
Begin(w) ==
    /\ conc[w].pc = "idle"
    /\ LET cm == confusion_matrix(y_true, y_pred)
       IN  IF w = "fpr" /\ cm.fp + cm.tn = 0
           THEN /\ conc' = [conc EXCEPT ![w] =
                              [pc |-> "done", point |-> <<0>>, scores |-> <<>>,
                               out |-> <<0, 0, 0>>]]
                /\ rng' = rng
           ELSE /\ conc' = [conc EXCEPT ![w] =
                              [pc |-> "loop", point |-> PointOf(w),
                               scores |-> <<>>, out |-> <<>>]]
                /\ rng' = SeedStateOf(w)
    /\ UNCHANGED <<inputs, returned, policy, script>>

\* one iteration of the loop: draw the indices, score the sample
Iterate(w) ==
    /\ conc[w].pc = "loop"
    /\ Len(conc[w].scores) < n_bootstrap
    /\ LET d == NpRandint(rng, Len(y_true))
           score == ScoreOf(w, Take(y_true, d.indices), Take(y_pred, d.indices))
       IN  /\ conc' = [conc EXCEPT ![w].scores = Append(@, score)]
           /\ rng' = d.rng
    /\ UNCHANGED <<inputs, returned, policy, script>>

\* the loop is over: percentiles, return
End(w) ==
    /\ conc[w].pc = "loop"
    /\ Len(conc[w].scores) = n_bootstrap
    /\ conc' = [conc EXCEPT ![w].pc = "done",
                            ![w].out = OutOf(w, conc[w].point, conc[w].scores)]
    /\ UNCHANGED <<inputs, returned, policy, rng, script>>

Step(w) == Begin(w) \/ Iterate(w) \/ End(w)

NextConc == \E w \in Tasks : Step(w)

SpecConc == InitConc /\ [][NextConc]_vars

\* what the function of a task returns when run alone
AloneOut(w) ==
    IF w = "f1"
    THEN calculate_f1_with_ci(y_true, y_pred, confidence, n_bootstrap,
                              random_state, 0).out
    ELSE IF w = "fpr"
    THEN calculate_fpr_with_ci(y_true, y_pred, confidence, n_bootstrap,
                               random_state, 0).out
    ELSE calculate_precision_recall_with_ci(y_true, y_pred, confidence,
                                            n_bootstrap, random_state, 0).out

\* C9: run as interleaved tasks, every metric bootstrap returns exactly the
\* point estimates and interval bounds it returns when run alone.
C9_InterleavingPreservesResults ==
    \A w \in Tasks : conc[w].pc = "done" => conc[w].out = AloneOut(w)

\* ========================================================== claims C1..C5
\* the snapshot the last meets_deployment_thresholds call was made on
Evaluated == IF outcome.of = 1 THEN metrics1 ELSE metrics2

\* which of the four rules a snapshot violates, in the order of the checks
RuleViolated(m) ==
    <<m.f1_score < MIN_F1_SCORE, m.fpr > MAX_FPR,
      m.f1_ci_lower < MIN_F1_SCORE, m.fpr_ci_upper > MAX_FPR>>

RuleText ==
    <<"F1 score below threshold", "FPR exceeds threshold",
      "F1 CI lower bound below threshold", "FPR CI upper bound exceeds threshold">>

\* C1: meets_deployment_thresholds passes exactly when point F1 >= min_f1,
\* point FPR <= max_fpr, F1 CI-lower >= min_f1 and FPR CI-upper <= max_fpr
\* (non-strict: a value equal to its threshold passes); the documented
\* snapshot {f1 0.90, f1_ci_lower 0.88, fpr 0.005, fpr_ci_upper 0.008}
\* passes with no violations.
C1_PassesIffAllRulesHold ==
    outcome.op = "evaluate" =>
        LET m == Evaluated
            r == outcome.result
        IN  /\ r.passes <=>
                  /\ m.f1_score >= MIN_F1_SCORE
                  /\ m.fpr <= MAX_FPR
                  /\ m.f1_ci_lower >= MIN_F1_SCORE
                  /\ m.fpr_ci_upper <= MAX_FPR
            /\ m = DocPassing => (r.passes /\ r.failures = <<>>)

\* a snapshot with all four values exactly on their thresholds was evaluated
\* and passed
C1_Witness ==
    /\ outcome.op = "evaluate"
    /\ Evaluated.f1_score = MIN_F1_SCORE
    /\ Evaluated.f1_ci_lower = MIN_F1_SCORE
    /\ Evaluated.fpr = MAX_FPR
    /\ Evaluated.fpr_ci_upper = MAX_FPR
    /\ outcome.result.passes

\* C2: the violations list holds exactly one entry per violated rule, in the
\* fixed order point-F1, point-FPR, F1-CI-lower, FPR-CI-upper (no
\* short-circuit); the documented snapshot with f1 0.90 and f1_ci_lower 0.80
\* fails with an "F1 CI lower bound" entry.
C2_OneEntryPerViolatedRule ==
    outcome.op = "evaluate" =>
        LET m == Evaluated
            r == outcome.result
            Violated(i) == RuleViolated(m)[i]
            expected == SelectSeq(<<1, 2, 3, 4>>, Violated)
        IN  /\ Len(r.failures) = Cardinality({i \in 1..4 : Violated(i)})
            /\ [i \in 1..Len(r.failures) |-> r.failures[i].text]
                   = [i \in 1..Len(expected) |-> RuleText[expected[i]]]
            /\ m = DocWeakLower =>
                   /\ ~r.passes
                   /\ \E i \in 1..Len(r.failures) :
                          r.failures[i].text = "F1 CI lower bound below threshold"

\* a snapshot violating all four rules was evaluated: four entries
C2_Witness ==
    /\ outcome.op = "evaluate"
    /\ \A i \in 1..4 : RuleViolated(Evaluated)[i]
    /\ Len(outcome.result.failures) = 4

Compared == outcome.op = "compare" /\ outcome.result.status = "ok"

\* candidate worse than baseline: lower F1, higher FPR
Worse(r) ==
    IF r.metric_name = "f1_score"
    THEN r.metrics2_value < r.metrics1_value
    ELSE r.metrics2_value > r.metrics1_value

\* C3: significant_degradation is exactly (NOT ci_overlap) AND (candidate
\* worse than baseline), for F1 and FPR and for every pair of snapshots,
\* also when a point value lies outside its own interval or the candidate
\* interval lies wholly on the better side of the baseline interval.
C3_DegradationIffDisjointAndWorse ==
    Compared =>
        LET r == outcome.result
        IN  r.significant_degradation
                <=> (~r.confidence_intervals_overlap /\ Worse(r))

\* the estimate <<value, ci_lower, ci_upper>> of the compared metric
EstimateOf(m, name) ==
    IF name = "f1_score"
    THEN <<m.f1_score, m.f1_ci_lower, m.f1_ci_upper>>
    ELSE <<m.fpr, m.fpr_ci_lower, m.fpr_ci_upper>>

\* C4: confidence_intervals_overlap is NOT(candidate_ci_upper <
\* baseline_ci_lower OR candidate_ci_lower > baseline_ci_upper), for both
\* metrics and every pair of snapshots; intervals that touch at an endpoint
\* overlap.
C4_OverlapFormula ==
    Compared =>
        LET r == outcome.result
            b == EstimateOf(metrics1, r.metric_name)
            c == EstimateOf(metrics2, r.metric_name)
        IN  /\ r.confidence_intervals_overlap <=> ~(c[3] < b[2] \/ c[2] > b[3])
            /\ (c[3] = b[2] \/ c[2] = b[3]) => r.confidence_intervals_overlap

\* two intervals sharing only an endpoint were compared and reported as
\* overlapping
C4_Witness ==
    /\ Compared
    /\ outcome.result.metric_name = "fpr"
    /\ metrics2.fpr_ci_lower = metrics1.fpr_ci_upper
    /\ metrics2.fpr_ci_upper > metrics2.fpr_ci_lower
    /\ metrics1.fpr_ci_lower < metrics1.fpr_ci_upper
    /\ outcome.result.confidence_intervals_overlap

\* C5: significant_degradation implies the intervals do not overlap,
\* whatever the point difference, for F1 and FPR; the documented pair
\* baseline {0.90, [0.88, 0.92]} / candidate {0.80, [0.78, 0.82]} is a
\* significant degradation, and with candidate interval [0.86, 0.92] it is
\* not.
C5_OverlapNeverDegraded ==
    Compared =>
        LET r == outcome.result
        IN  /\ r.significant_degradation => ~r.confidence_intervals_overlap
            /\ (metrics1 = DocPassing /\ metrics2 = DocDegraded
                    /\ r.metric_name = "f1_score") => r.significant_degradation
            /\ (metrics1 = DocPassing /\ metrics2 = DocOverlapping
                    /\ r.metric_name = "f1_score") => ~r.significant_degradation

\* overlapping intervals with a candidate point value below the baseline's
\* were compared: no significant degradation
C5_Witness ==
    /\ Compared
    /\ outcome.result.metric_name = "f1_score"
    /\ outcome.result.confidence_intervals_overlap
    /\ outcome.result.metrics2_value < outcome.result.metrics1_value
    /\ ~outcome.result.significant_degradation


\* ========================================================= claims C6..C10
Called(f) == returned[f] # NoRet

Valid == Len(y_true) > 0 /\ Len(y_true) = Len(y_pred)

\* C6: for every non-empty pair of equal-length label arrays
\* calculate_all_performance_metrics returns a snapshot whose four counts are
\* non-negative and sum to total_samples, which is N; categories absent from
\* a degenerate input are zero.
C6_CountsSumToN ==
    (Called("all") /\ Valid) =>
        LET r == returned["all"]
            m == r.out
        IN  /\ r.status = "ok"
            /\ m.true_positives >= 0 /\ m.false_positives >= 0
            /\ m.true_negatives >= 0 /\ m.false_negatives >= 0
            /\ m.true_positives + m.false_positives
                   + m.true_negatives + m.false_negatives = m.total_samples
            /\ m.total_samples = Len(y_true)
            /\ (\A i \in 1..Len(y_true) : y_true[i] = 1) =>
                   (m.true_negatives = 0 /\ m.false_positives = 0)
            /\ (\A i \in 1..Len(y_true) : y_true[i] = 0) =>
                   (m.true_positives = 0 /\ m.false_negatives = 0)

\* a snapshot was returned for a degenerate input, all labels and all
\* predictions 0: every sample is a true negative
C6_Witness ==
    /\ Valid /\ Len(y_true) = MaxN
    /\ returned["all"].status = "ok"
    /\ \A i \in 1..Len(y_true) : y_true[i] = 0 /\ y_pred[i] = 0
    /\ returned["all"].out.true_negatives = MaxN
    /\ returned["all"].out.true_positives = 0

UnitInterval(t) == 0 <= t[2] /\ t[2] <= t[3] /\ t[3] <= Scale

\* C7: every interval returned for F1, precision, recall and FPR satisfies
\* 0 <= ci_lower <= ci_upper <= 1.
C7_IntervalsOrderedInUnitRange ==
    /\ returned["f1"].status = "ok" => UnitInterval(returned["f1"].out)
    /\ returned["fpr"].status = "ok" => UnitInterval(returned["fpr"].out)
    /\ returned["pr"].status = "ok" =>
           /\ UnitInterval(returned["pr"].out.precision)
           /\ UnitInterval(returned["pr"].out.recall)
    /\ returned["all"].status = "ok" =>
           LET m == returned["all"].out
           IN  /\ UnitInterval(<<m.f1_score, m.f1_ci_lower, m.f1_ci_upper>>)
               /\ UnitInterval(<<m.fpr, m.fpr_ci_lower, m.fpr_ci_upper>>)
               /\ UnitInterval(<<m.precision, m.precision_ci_lower,
                                 m.precision_ci_upper>>)
               /\ UnitInterval(<<m.recall, m.recall_ci_lower, m.recall_ci_upper>>)

\* an F1 interval with distinct, interpolated bounds strictly inside (0, 1)
C7_Witness ==
    /\ returned["f1"].status = "ok"
    /\ n_bootstrap > 1
    /\ 0 < returned["f1"].out[2]
    /\ returned["f1"].out[2] < returned["f1"].out[3]
    /\ returned["f1"].out[3] < Scale

\* C8: an invocation with the same inputs, seed, bootstrap count and
\* confidence returns the same point estimates and interval bounds as the
\* earlier invocation of that function, whatever was drawn from the
\* process-wide generator or computed in between.
C8_SameInputsSameResult ==
    [][\A f \in Functions :
          Called(f) => /\ returned'[f].status = returned[f].status
                       /\ returned'[f].out = returned[f].out]_vars

\* all four functions have returned and the generator has since been moved
\* away from where a bootstrap leaves it
C8_Witness ==
    /\ \A f \in Functions : returned[f].status = "ok"
    /\ rng # Resamples(Len(y_true), n_bootstrap, NpSeed(random_state)).rng
    /\ returned["f1"].out[2] < returned["f1"].out[3]

\* C10: with an empty array every engine function raises an input
\* validation error before any point estimate, seeding or bootstrap
\* iteration; nothing is returned.
C10_EmptyInputRejected ==
    \A f \in Functions :
        (Called(f) /\ (Len(y_true) = 0 \/ Len(y_pred) = 0)) =>
            /\ returned[f].status = "error"
            /\ returned[f].raised_by = "validation"
            /\ returned[f].error \in {"empty_input", "empty_dataset"}
            /\ returned[f].steps = <<>>
            /\ returned[f].indices = <<>>
            /\ returned[f].out = <<>>

\* all four functions were invoked on the empty label-pair set
C10_Witness ==
    /\ y_true = <<>> /\ y_pred = <<>>
    /\ \A f \in Functions : Called(f) /\ returned[f].status = "error"

Misaligned == Len(y_true) > 0 /\ Len(y_pred) > 0 /\ Len(y_true) # Len(y_pred)

\* C11: with two non-empty arrays of different lengths each of the four
\* engine functions raises the length-mismatch validation error, raised by
\* the validation at the head of the metric functions, before any point
\* estimate is computed and before any bootstrap work; nothing is returned.
C11_MisalignedRejectedByValidation ==
    \A f \in Functions :
        (Called(f) /\ Misaligned) =>
            /\ returned[f].status = "error"
            /\ returned[f].error = "length_mismatch"
            /\ returned[f].raised_by = "validation"
            /\ returned[f].steps = <<>>
            /\ returned[f].out = <<>>

SupportedNames == {"f1_score", "fpr"}

\* C12: compare_metrics raises the unsupported-metric error for every
\* metric name other than 'f1_score' and 'fpr', 'precision' and 'recall'
\* included, and then returns no comparison; for the two supported names it
\* returns a comparison and never raises.
C12_OnlyF1AndFprSupported ==
    (outcome.op = "compare") =>
        LET r == outcome.result
        IN  IF r.metric_name \in SupportedNames
            THEN /\ r.status = "ok"
                 /\ "significant_degradation" \in DOMAIN r
            ELSE /\ r.status = "error"
                 /\ r.error = "unknown_metric_name"
                 /\ DOMAIN r = {"status", "error", "metric_name"}

\* a comparison on 'precision' was refused for two snapshots whose F1
\* comparison would have reported a degradation
C12_Witness ==
    /\ outcome.op = "compare"
    /\ outcome.result.metric_name = "precision"
    /\ outcome.result.status = "error"
    /\ compare_metrics(metrics1, metrics2, "f1_score").significant_degradation

\* the snapshot's estimates as <<point, ci_lower, ci_upper>> per metric
Triples(m) ==
    [f1_score |-> <<m.f1_score, m.f1_ci_lower, m.f1_ci_upper>>,
     fpr |-> <<m.fpr, m.fpr_ci_lower, m.fpr_ci_upper>>,
     precision |-> <<m.precision, m.precision_ci_lower, m.precision_ci_upper>>,
     recall |-> <<m.recall, m.recall_ci_lower, m.recall_ci_upper>>]

\* num / den as an exact fraction, 0.0 when the denominator is zero
Quotient(num, den) == IF den = 0 THEN 0 ELSE (num * Scale) \div den

\* 2PR / (P + R) for P = tp/(tp+fp) and R = tp/(tp+fn), cleared of the
\* common denominator (tp+fp)(tp+fn): 2 tp^2 / (tp (2tp + fp + fn)); P + R
\* is zero exactly when tp is
HarmonicMean(tp, fp, fn) == Quotient(2 * tp * tp, tp * (2 * tp + fp + fn))

\* C13: the point estimates of a snapshot are the textbook formulas on the
\* snapshot's own counts, 0.0 where a denominator is zero:
\* precision = TP/(TP+FP), recall = TP/(TP+FN), F1 = 2PR/(P+R),
\* FPR = FP/(FP+TN); for y_true = [0,1,1,0,1], y_pred = [0,1,0,0,1] the
\* counts are tp=2, fp=0, fn=1, tn=2 and the estimates 1, 2/3, 0.8 and 0.
C13_PointEstimatesFromCounts ==
    (Called("all") /\ Valid) =>
        LET m == returned["all"].out
            tp == m.true_positives
            fp == m.false_positives
            fn == m.false_negatives
            tn == m.true_negatives
        IN  /\ returned["all"].status = "ok"
            /\ m.precision = Quotient(tp, tp + fp)
            /\ m.recall = Quotient(tp, tp + fn)
            /\ m.f1_score = HarmonicMean(tp, fp, fn)
            /\ m.fpr = Quotient(fp, fp + tn)
            /\ (y_true = ExampleTrue /\ y_pred = ExamplePred) =>
                   /\ tp = 2 /\ fp = 0 /\ fn = 1 /\ tn = 2
                   /\ m.precision = Scale
                   /\ 3 * m.recall = 2 * Scale
                   /\ 5 * m.f1_score = 4 * Scale
                   /\ m.fpr = 0

\* the snapshot of the documented example was returned
C13_Witness ==
    /\ y_true = ExampleTrue /\ y_pred = ExamplePred
    /\ returned["all"].status = "ok"
    /\ returned["all"].out.true_positives = 2
    /\ 5 * returned["all"].out.f1_score = 4 * Scale

\* the metrics each metric function estimates
MetricsOf(g) ==
    IF g = "f1" THEN {"f1_score"}
    ELSE IF g = "fpr" THEN {"fpr"}
    ELSE {"precision", "recall"}

\* invocation f has returned normally and metric function g ran in it
Ran(f, g) == returned[f].status = "ok" /\ (f = g \/ f = "all")

\* the index arrays metric function g drew in invocation f, one per
\* bootstrap iteration
IndexSets(f, g) ==
    IF f = "all" THEN returned[f].indices[g] ELSE returned[f].indices

\* <<point, ci_lower, ci_upper>> of a metric as invocation f returned it
EstimateTriple(f, metric) ==
    IF f = "all" THEN Triples(returned[f].out)[metric]
    ELSE IF f = "pr" THEN returned[f].out[metric]
    ELSE returned[f].out

\* the denominator of a metric is zero on the sample (yt, yp); for F1 that
\* is any of the denominators of P, R and 2PR/(P+R)
ZeroDenominator(metric, yt, yp) ==
    LET c == confusion_matrix(yt, yp)
    IN  IF metric = "f1_score" THEN c.tp = 0
        ELSE IF metric = "precision" THEN c.tp + c.fp = 0
        ELSE IF metric = "recall" THEN c.tp + c.fn = 0
        ELSE c.fp + c.tn = 0

\* a finite number in [0, 1]
Finite(v) == v \in 0..Scale

\* C14: for every non-empty aligned input no function raises and every
\* number it computes is a finite value in [0, 1], never NaN or infinity:
\* a bootstrap resample on which a metric's denominator is zero contributes
\* the score 0.0, and so does a full dataset whose ground truth is all
\* positive or all negative.
C14_ZeroDenominatorGivesZero ==
    \A f \in Functions :
        (Called(f) /\ Valid) =>
            /\ returned[f].status = "ok"
            /\ \A g \in Tasks : \A metric \in MetricsOf(g) :
                   Ran(f, g) =>
                       LET t == EstimateTriple(f, metric)
                           scores == returned[f].scores[metric]
                           idx == IndexSets(f, g)
                       IN  /\ \A k \in 1..3 : Finite(t[k])
                           /\ ZeroDenominator(metric, y_true, y_pred) => t[1] = 0
                           /\ \A i \in 1..Len(scores) :
                                  /\ Finite(scores[i])
                                  /\ ZeroDenominator(metric, Take(y_true, idx[i]),
                                                     Take(y_pred, idx[i]))
                                         => scores[i] = 0

\* the ground truth is all positive, a prediction is positive, and yet an
\* iteration of the snapshot's bootstrap drew a resample with no predicted
\* positive: its precision score is 0.0
C14_Witness ==
    /\ Valid
    /\ returned["all"].status = "ok"
    /\ \A i \in 1..Len(y_true) : y_true[i] = 1
    /\ Sum(y_pred) > 0
    /\ \E i \in 1..Len(returned["all"].scores.precision) :
           /\ Sum(Take(y_pred, returned["all"].indices.pr[i])) = 0
           /\ returned["all"].scores.precision[i] = 0

NoNegatives == \A i \in 1..Len(y_true) : y_true[i] = 1

NoPositives == \A i \in 1..Len(y_true) : y_true[i] = 0

\* C15: on a dataset without negative samples calculate_fpr_with_ci returns
\* exactly (0.0, 0.0, 0.0) straight after the confusion matrix: it seeds
\* nothing, runs no resampling iteration and leaves the random generator
\* where it stood.
C15_NoNegativesSkipsBootstrap ==
    [][(CalcFpr /\ Valid /\ NoNegatives) =>
           /\ returned'["fpr"].status = "ok"
           /\ returned'["fpr"].out = <<0, 0, 0>>
           /\ returned'["fpr"].steps = <<"point">>
           /\ returned'["fpr"].indices = <<>>
           /\ returned'["fpr"].scores.fpr = <<>>
           /\ rng' = rng]_vars

\* calculate_fpr_with_ci has returned for an all-positive ground truth with
\* a bootstrap of several iterations requested, and the generator stands
\* where no bootstrap of these inputs would leave it
C15_Witness ==
    /\ Valid /\ NoNegatives
    /\ n_bootstrap > 1
    /\ returned["fpr"].status = "ok"
    /\ returned["fpr"].out = <<0, 0, 0>>
    /\ rng # Resamples(Len(y_true), n_bootstrap, NpSeed(random_state)).rng

\* C16: when the ground truth holds no positive sample the recall estimate
\* is exactly (0.0, 0.0, 0.0), whatever the predictions, the seed and the
\* number of iterations, and no error is raised.
C16_NoPositivesRecallZero ==
    \A f \in {"pr", "all"} :
        (Called(f) /\ Valid /\ NoPositives) =>
            /\ returned[f].status = "ok"
            /\ EstimateTriple(f, "recall") = <<0, 0, 0>>

\* recall was estimated on an all-negative ground truth with a positive
\* prediction, by the function and within a snapshot
C16_Witness ==
    /\ Valid /\ NoPositives
    /\ Sum(y_pred) > 0
    /\ n_bootstrap > 1
    /\ returned["pr"].status = "ok" /\ returned["all"].status = "ok"
    /\ returned["pr"].out.recall = <<0, 0, 0>>

\* C17: within one calculate_all_performance_metrics invocation the index
\* array drawn at bootstrap iteration i is the same for F1, FPR, precision
\* and recall, for every i in 0..B-1; precision and recall are scored on
\* one array per iteration, and FPR draws none at all when the dataset
\* holds no negative sample.
C17_SharedResampleIndices ==
    (Called("all") /\ Valid) =>
        LET r == returned["all"]
        IN  /\ r.status = "ok"
            /\ Len(r.indices.f1) = n_bootstrap
            /\ Len(r.indices.pr) = n_bootstrap
            /\ \A i \in 1..n_bootstrap : r.indices.pr[i] = r.indices.f1[i]
            /\ IF NoNegatives
               THEN r.indices.fpr = <<>>
               ELSE /\ Len(r.indices.fpr) = n_bootstrap
                    /\ \A i \in 1..n_bootstrap :
                           r.indices.fpr[i] = r.indices.f1[i]
            /\ Len(r.scores.precision) = Len(r.scores.recall)

\* a snapshot whose three bootstraps all ran, over several iterations that
\* drew different index arrays
C17_Witness ==
    /\ Valid /\ ~NoNegatives
    /\ returned["all"].status = "ok"
    /\ n_bootstrap > 1
    /\ returned["all"].indices.fpr = returned["all"].indices.f1
    /\ returned["all"].indices.f1[1] # returned["all"].indices.f1[2]

\* a metric applied to the full, unresampled label-pair set
FullDataScore(metric) ==
    IF metric = "f1_score" THEN f1_score(y_true, y_pred)
    ELSE IF metric = "precision" THEN precision_score(y_true, y_pred)
    ELSE IF metric = "recall" THEN recall_score(y_true, y_pred)
    ELSE LET c == confusion_matrix(y_true, y_pred) IN Ratio(c.fp, c.fp + c.tn)

\* C18: the point estimate of every metric is the metric applied to the
\* full, unresampled dataset, a value fixed by the label pairs alone: it is
\* the same for every seed, number of bootstrap iterations and confidence
\* level of the invocation, which move the interval bounds only.
C18_PointEstimateOnFullData ==
    \A f \in Functions : \A g \in Tasks : \A metric \in MetricsOf(g) :
        (Valid /\ Ran(f, g)) =>
            EstimateTriple(f, metric)[1] = FullDataScore(metric)

\* an F1 estimate whose interval bounds move when the seed is changed while
\* the point estimate stays
C18_Witness ==
    /\ Valid /\ returned["f1"].status = "ok"
    /\ \E seed \in 0..MaxSeed :
           LET r == calculate_f1_with_ci(y_true, y_pred, confidence,
                                         n_bootstrap, seed, rng)
           IN  /\ <<r.out[2], r.out[3]>>
                      # <<returned["f1"].out[2], returned["f1"].out[3]>>
               /\ r.out[1] = returned["f1"].out[1]
    /\ returned["f1"].out[1] # returned["f1"].out[2]

\* metric function g ran its bootstrap in invocation f
Bootstrapped(f, g) == Valid /\ Ran(f, g) /\ ~(g = "fpr" /\ NoNegatives)

\* the score of a metric on one bootstrap sample
ScoreOn(metric, ytb, ypb) ==
    IF metric = "f1_score" THEN F1Boot(ytb, ypb)
    ELSE IF metric = "fpr" THEN FprBoot(ytb, ypb)
    ELSE IF metric = "precision" THEN precision_score(ytb, ypb)
    ELSE recall_score(ytb, ypb)

\* C19: a bootstrap run performs exactly B iterations and collects exactly
\* B scores per metric; each iteration draws exactly N indices, each in
\* [0, N), with replacement, and scores the metric on the truth and
\* prediction values found at those same indices.
C19_BootstrapShape ==
    \A f \in Functions : \A g \in Tasks :
        Bootstrapped(f, g) =>
            LET idx == IndexSets(f, g)
                N == Len(y_true)
            IN  /\ Len(idx) = n_bootstrap
                /\ \A i \in 1..Len(idx) :
                       /\ Len(idx[i]) = N
                       /\ \A k \in 1..Len(idx[i]) : idx[i][k] \in 0..(N - 1)
                /\ \A metric \in MetricsOf(g) :
                       LET scores == returned[f].scores[metric]
                       IN  /\ Len(scores) = n_bootstrap
                           /\ \A i \in 1..Len(scores) :
                                  scores[i] =
                                      ScoreOn(metric,
                                          [k \in 1..N |-> y_true[idx[i][k] + 1]],
                                          [k \in 1..N |-> y_pred[idx[i][k] + 1]])

\* a snapshot's bootstrap of several iterations, one of which drew the same
\* index twice and left another index out
C19_Witness ==
    /\ Valid /\ Len(y_true) > 1 /\ n_bootstrap > 1
    /\ returned["all"].status = "ok"
    /\ \E i \in 1..n_bootstrap :
           LET a == returned["all"].indices.f1[i]
           IN  /\ a[1] = a[2]
               /\ \E j \in 0..(Len(y_true) - 1) :
                      \A k \in 1..Len(a) : a[k] # j
    /\ Len(returned["all"].scores.f1_score) = n_bootstrap

\* how many scores are below v, and how many are at most v
Below(scores, v) == Cardinality({i \in 1..Len(scores) : scores[i] < v})

UpTo(scores, v) == Cardinality({i \in 1..Len(scores) : scores[i] <= v})

\* the k-th smallest score, counted with repetitions: a matter of the
\* multiset of scores, not of their order
OrderStat(scores, k) ==
    CHOOSE v \in {scores[i] : i \in 1..Len(scores)} :
        Below(scores, v) < k /\ k <= UpTo(scores, v)

\* b is the percentile of rank qnum / PctDen of the scores under linear
\* interpolation: at position h = (n - 1) * qnum / PctDen among the order
\* statistics, between the neighbours of h in proportion to its fraction
IsLinearPercentile(b, scores, qnum) ==
    LET n == Len(scores)
        h == (n - 1) * qnum
        j == h \div PctDen
        g == h % PctDen
        below == OrderStat(scores, j + 1)
    IN  IF g = 0 THEN b = below
        ELSE PctDen * (b - below) = g * (OrderStat(scores, j + 2) - below)

Reversed(s) == [i \in 1..Len(s) |-> s[Len(s) + 1 - i]]

\* C20: the interval bounds of a metric are the (alpha/2)*100 and
\* (1 - alpha/2)*100 percentiles of its bootstrap scores under linear
\* interpolation, alpha = 1 - confidence; they are fixed by the multiset of
\* the scores, not by their order, and each lies between the smallest and
\* the largest score.
C20_BoundsArePercentiles ==
    \A f \in Functions : \A g \in Tasks : \A metric \in MetricsOf(g) :
        Bootstrapped(f, g) =>
            LET t == EstimateTriple(f, metric)
                scores == returned[f].scores[metric]
                n == Len(scores)
            IN  /\ IsLinearPercentile(t[2], scores, 100 - confidence)
                /\ IsLinearPercentile(t[3], scores, 100 + confidence)
                /\ OrderStat(scores, 1) <= t[2] /\ t[2] <= t[3]
                /\ t[3] <= OrderStat(scores, n)
                /\ Interval(Reversed(scores), confidence) = <<t[2], t[3]>>

\* an F1 interval over three scores that were not collected in ascending
\* order, with both bounds interpolated strictly between scores
C20_Witness ==
    /\ Bootstrapped("f1", "f1")
    /\ n_bootstrap > 2
    /\ LET scores == returned["f1"].scores.f1_score
           t == returned["f1"].out
       IN  /\ scores[1] > scores[2]
           /\ \A i \in 1..Len(scores) : scores[i] # t[2] /\ scores[i] # t[3]
           /\ t[2] < t[3]

\* C21: for 1 <= N < 30 calculate_all_performance_metrics does not fail,
\* returns a complete snapshot, and the snapshot carries a low_sample_size
\* flag that is set; for N >= 30 the flag is absent or false.
C21_LowSampleSizeFlag ==
    (Called("all") /\ Valid) =>
        LET r == returned["all"]
        IN  /\ r.status = "ok"
            /\ MetricFields \cup CountFields \cup {"auc_roc"} \subseteq DOMAIN r.out
            /\ IF Len(y_true) < SMALL_SAMPLE
               THEN "low_sample_size" \in DOMAIN r.out /\ r.out.low_sample_size
               ELSE "low_sample_size" \in DOMAIN r.out => ~r.out.low_sample_size

\* twice the number of (positive, negative) sample pairs the scores rank
\* correctly, a tie counted once
RankedPairs ==
    LET v == y_scores.values
        P == {i \in 1..Len(y_true) : y_true[i] = 1}
        Q == {i \in 1..Len(y_true) : y_true[i] = 0}
    IN  2 * Cardinality({p \in P \X Q : v[p[1]] > v[p[2]]})
            + Cardinality({p \in P \X Q : v[p[1]] = v[p[2]]})

\* the full ground truth holds a positive and a negative sample
TwoClasses == 0 < Sum(y_true) /\ Sum(y_true) < Len(y_true)

Serialized == outcome.op = "to_dict"

\* d is x rounded to four decimals: d / 10000 is within half a unit of the
\* fourth decimal of x
IsRounded4(d, x) ==
    LET unit == Scale \div 1000
        gap == d * unit - x * 10
    IN  2 * gap <= unit /\ 2 * gap >= 0 - unit

\* C25: to_dict emits value, ci_lower and ci_upper of the four metrics
\* rounded to four decimals, the four counts and total_samples unchanged,
\* and auc_roc as null only when the snapshot's auc_roc is null: every
\* non-null AUC, 0.0 included, is serialized as a number.
C25_ToDictPreservesSnapshot ==
    Serialized =>
        LET m == returned["all"].out
            d == outcome.result
        IN  /\ DOMAIN d = MetricFields \cup CountFields \cup {"auc_roc"}
            /\ \A k \in MetricFields : IsRounded4(d[k], m[k])
            /\ \A k \in CountFields : d[k] = m[k]
            /\ (d.auc_roc = NoAuc) <=> (m.auc_roc = NoAuc)
            /\ m.auc_roc # NoAuc => IsRounded4(d.auc_roc, m.auc_roc)

\* the same operation on the same snapshot
SameCall(o1, o2) ==
    /\ o1.op = o2.op /\ o1.op # "none"
    /\ o1.of = o2.of
    /\ o1.op = "compare" => o1.result.metric_name = o2.result.metric_name

PerModelEnded == batch.pc \in {"returned", "reported", "raised"}

PerModelReturned == batch.pc \in {"returned", "reported"}

\* C24: once calculate_per_model_metrics has ended, by a normal return or
\* by an exception raised from a query, the module-level
\* BOOTSTRAP_ITERATIONS equals the value it had before the call.
C24_GlobalRestoredAfterCall ==
    PerModelEnded => batch.BOOTSTRAP_ITERATIONS = batch.before

\* C26: every model's metrics in the per-model results were computed with
\* the reduced count of 1,000 bootstrap iterations the function sets, not
\* with the count the module was imported with.
C26_PerModelUsesReducedIterations ==
    PerModelReturned =>
        \A id \in DOMAIN batch.results :
            batch.results[id].n_bootstrap = PER_MODEL_ITERATIONS

\* C27: for every per-model result the overall PASS/FAIL of the report
\* agrees with meets_deployment_thresholds() under the default thresholds.
C27_ReportAgreesWithVerdict ==
    batch.pc = "reported" =>
        \A id \in DOMAIN batch.report :
            (batch.report[id].overall_status = "PASS")
                <=> meets_deployment_thresholds(batch.results[id].metrics).passes

\* the models of the database with at least one resolved decision
Resolved == {id \in ModelIds : Len(batch.db[id][1]) > 0}

\* C28: the per-model results hold one entry for every model with at least
\* one resolved decision and none for the others, and the tallied
\* confusion_matrix of an entry equals the four counts of its metrics
\* object and sums to its total_decisions, the number of resolved decisions
\* of the model.
C28_OneEntryPerResolvedModel ==
    PerModelReturned =>
        /\ DOMAIN batch.results = Resolved
        /\ \A id \in Resolved :
               LET e == batch.results[id]
                   t == e.confusion_matrix
               IN  /\ t.tp = e.metrics.true_positives
                   /\ t.fp = e.metrics.false_positives
                   /\ t.tn = e.metrics.true_negatives
                   /\ t.fn = e.metrics.false_negatives
                   /\ t.tp + t.fp + t.tn + t.fn = e.total_decisions
                   /\ e.total_decisions = Len(batch.db[id][1])
                   /\ e.model_name = id

\* the call returned for a database where one model has no resolved
\* decision and another has an entry with a false positive and no false
\* negative
C28_Witness ==
    /\ PerModelReturned
    /\ Resolved # ModelIds
    /\ \E id \in DOMAIN batch.results :
           /\ batch.results[id].confusion_matrix.fp > 0
           /\ batch.results[id].confusion_matrix.fn = 0

\* ----------------------------------------------------------- C29 .. C30
\* generate_all has ended, by a return or by an exception
GenerateAllEnded == generator.pc \in {"done", "raised"}

\* C29: once generate_all has opened the connection it closes the cursor
\* and the connection exactly once however it ends; after a failure of a
\* generation step the transaction is rolled back and that step's
\* exception is the one raised; the steps run in the fixed order and none
\* runs after one has failed.
C29_ClosedOnceRolledBackInOrder ==
    /\ generator.pc # "idle" =>
           generator.ran = SubSeq(Steps, 1, Len(generator.ran))
    /\ (GenerateAllEnded /\ generator.conn # "None") =>
           /\ generator.conn = "closed" /\ generator.conn_closed = 1
           /\ generator.cur = "closed" /\ generator.cur_closed = 1
           /\ generator.pc = "raised" =>
                  /\ generator.rolled_back = 1
                  /\ generator.raised = generator.ran[Len(generator.ran)]
           /\ generator.pc = "done" =>
                  /\ generator.rolled_back = 0
                  /\ generator.ran = Steps

Reviewed(d) == d.reviewed_by # "None"

=========================================================================
